---- MODULE Spec2Model ----
(***************************************************************************)
(* A model of planet::jupiter::ephemeris (src/src/planet/jupiter.rs).      *)
(*                                                                         *)
(* An f64 is modelled as a fixed-point number: the integer v stands for    *)
(* the real v / Scale.  Angles are radians unless a name says degrees.     *)
(* A Julian day is too large for that format and is a pair <<whole, frac>> *)
(* standing for whole + frac / Scale.                                      *)
(***************************************************************************)
EXTENDS Integers, Sequences, FiniteSets

\* ------------------------------------------------------------------------
\* f64 arithmetic in fixed point
\* ------------------------------------------------------------------------

Scale == 100000

Abs(a) == IF a < 0 THEN -a ELSE a

Sgn(a) == IF a < 0 THEN -1 ELSE IF a > 0 THEN 1 ELSE 0

\* p * q for p, q >= 0, rounded to the nearest: the product is computed in
\* halves so that no intermediate value leaves the 32-bit range.
MulAbs(p, q) ==
    LET p1 == p \div 1000
        p0 == p % 1000
        q1 == q \div 1000
        q0 == q % 1000
        t  == p1 * q0 + p0 * q1
    IN  p1 * q1 * 10 + (t \div 100) + (((t % 100) * 1000 + p0 * q0 + Scale \div 2) \div Scale)

\* a * b
Mul(a, b) == Sgn(a) * Sgn(b) * MulAbs(Abs(a), Abs(b))

\* The first k decimal digits of rem / den (0 <= rem < den), by long division.
RECURSIVE DivDigits(_, _, _)
DivDigits(rem, den, k) ==
    IF k = 0 THEN 0
    ELSE ((rem * 10) \div den) * (10 ^ (k - 1)) + DivDigits((rem * 10) % den, den, k - 1)

\* a / b for b # 0, rounded to the nearest.
Div(a, b) ==
    LET p == Abs(a)
        q == Abs(b)
    IN  Sgn(a) * Sgn(b) * ((p \div q) * Scale + ((DivDigits(p % q, q, 6) + 5) \div 10))

\* The smallest y in lo..hi with y * y >= a, by bisection.
RECURSIVE SqrtBetween(_, _, _)
SqrtBetween(a, lo, hi) ==
    IF hi - lo <= 1
    THEN IF MulAbs(lo, lo) >= a THEN lo ELSE hi
    ELSE LET mid == (lo + hi) \div 2
         IN  IF MulAbs(mid, mid) >= a THEN SqrtBetween(a, lo, mid)
                                      ELSE SqrtBetween(a, mid, hi)

\* f64::sqrt, for a >= 0.
Sqrt(a) == SqrtBetween(a, 0, IF a > Scale THEN a ELSE Scale)

Pi == 314159

TwoPi == 628319

HalfPi == 157080

\* The Taylor series of sin to the x^11 term, in Horner form, x2 = xq * xq.
SinSeries(xq, x2) ==
    Mul(xq, Scale - Mul(x2, Scale - Mul(x2, Scale - Mul(x2, Scale - Mul(x2,
            Scale - x2 \div 110) \div 72) \div 42) \div 20) \div 6)

\* sin on [0, pi/2].
SinQ(xq) == SinSeries(xq, Mul(xq, xq))

\* f64::sin: the angle is folded into [0, pi/2] and the sign follows the
\* half of the turn it lies in.
Sin(a) ==
    LET w == a % TwoPi
    IN  (IF w <= Pi THEN 1 ELSE -1)
          * SinQ(IF w <= HalfPi THEN w
                 ELSE IF w <= Pi THEN Pi - w
                 ELSE IF w <= Pi + HalfPi THEN w - Pi
                 ELSE TwoPi - w)

\* f64::cos
Cos(a) == Sin(a + HalfPi)

\* f64::tan
Tan(a) == Div(Sin(a), Cos(a))

\* The Taylor series of atan to the t^9 term, t2 = t * t.
AtanSeries(t, t2) ==
    Mul(t, Scale - Mul(t2, Scale \div 3 - Mul(t2, Scale \div 5 - Mul(t2,
           Scale \div 7 - Mul(t2, Scale \div 9)))))

\* atan on [0, tan(pi/12)].
AtanSmall(t) == AtanSeries(t, Mul(t, t))

\* atan on [-tan(pi/12), tan(pi/12)]: atan is odd.
AtanOdd(w) == Sgn(w) * AtanSmall(Abs(w))

\* atan on [0, 1]: atan t = pi/6 + atan((t sqrt3 - 1) / (sqrt3 + t)) above
\* tan(pi/12) = 0.26795, with sqrt3 = 1.73205.
AtanUnit(t) ==
    (IF t <= 26795 THEN 0 ELSE Pi \div 6)
      + AtanOdd(IF t <= 26795 THEN t ELSE Div(Mul(t, 173205) - Scale, 173205 + t))

\* atan2 in the first quadrant, p >= 0 and q >= 0, not both 0: atan(p / q),
\* which is pi/2 - atan(q / p) when p > q.
AtanQuad(p, q) ==
    (IF p <= q THEN 0 ELSE HalfPi)
      + (IF p <= q THEN 1 ELSE -1) * AtanUnit(IF p <= q THEN Div(p, q) ELSE Div(q, p))

\* The angle of the point (b, a) from the angle qd of (|b|, |a|).
AtanPlace(qd, a, b) ==
    IF b >= 0 THEN Sgn(a) * qd
    ELSE IF a >= 0 THEN Pi - qd ELSE qd - Pi

\* f64::atan2: a.atan2(b), the angle of the point (b, a), in (-pi, pi].
Atan2(a, b) ==
    IF a = 0 /\ b = 0 THEN 0
    ELSE AtanPlace(AtanQuad(Abs(a), Abs(b)), a, b)

\* f64::asin, for |a| <= 1.
Asin(a) == Atan2(a, Sqrt(Scale - Mul(a, a)))

\* f64::to_radians: x * (pi / 180)
ToRadians(deg) == Sgn(deg) * ((MulAbs(Abs(deg), Pi) + 90) \div 180)

\* f64::to_degrees: x * (180 / pi)
ToDegrees(rad) == Mul(rad, 5729578)

\* ------------------------------------------------------------------------
\* f64 values beyond the fixed-point range: <<whole, frac>> stands for
\* whole + frac / Scale.  Julian days and the rotation angles accumulated
\* over d days are such values.
\* ------------------------------------------------------------------------

\* jd - t for a Julian day jd and a fixed-point number of days t.
DaySub(jd, t) ==
    LET f == jd[2] - t
    IN  <<jd[1] + (f \div Scale), f % Scale>>

\* jd - epoch as a fixed-point number of days.
DaysSince(jd, epoch) == (jd[1] - epoch[1]) * Scale + (jd[2] - epoch[2])

\* c + rate * t, for the rate rw + rf / Scale and the fixed-point t.
Linear(c, rw, rf, t) ==
    LET tw == t \div Scale
        tf == t % Scale
    IN  <<rw * tw, c + rw * tf + rf * tw + MulAbs(rf, tf)>>

\* ------------------------------------------------------------------------
\* The collaborators of ephemeris: functions of other modules of the crate
\* ------------------------------------------------------------------------

\* angle::LimitTo360: an angle in degrees brought into [0, 360).
LimitTo360(big) ==
    ((big[1] % 360) * Scale + (big[2] % (360 * Scale))) % (360 * Scale)

\* The epoch of the orbital elements below.
ElementsEpoch == <<2433282, 50000>>

\* Mean elements of a planet: mean longitude at the epoch and its daily
\* motion (whole and fractional part), longitude of the perihelion,
\* eccentricity, semimajor axis, inclination and longitude of the node;
\* degrees and AU.
Elements(planet) ==
    IF planet = "Earth"
    THEN [L0 |-> 9999000, nw |-> 0, nf |-> 98561, peri |-> 10208000,
          e |-> 1673, a |-> 100000, inc |-> 0, node |-> 0]
    ELSE [L0 |-> 31671000, nw |-> 0, nf |-> 8309, peri |-> 1352000,
          e |-> 4845, a |-> 520280, inc |-> 130500, node |-> 9994000]

\* planet::heliocen_pos: heliocentric longitude, latitude and radius vector
\* of a planet on a Julian day, here to the first order in the eccentricity.
heliocen_pos(planet, jd) ==
    LET el == Elements(planet)
        t  == DaysSince(jd, ElementsEpoch)
        L  == ToRadians(LimitTo360(Linear(el.L0, el.nw, el.nf, t)))
        M  == L - ToRadians(el.peri)
        lon == (L + 2 * Mul(el.e, Sin(M))) % TwoPi
        lat == Mul(ToRadians(el.inc), Sin(lon - ToRadians(el.node)))
        rad == Mul(el.a, Scale - Mul(el.e, Cos(M)))
    IN  <<lon, lat, rad>>

\* planet::geocen_ecl_rect_coords: geocentric ecliptic rectangular
\* coordinates of a planet from the heliocentric positions of the Earth
\* (L0, B0, R0) and of the planet (L, B, r1).
geocen_ecl_rect_coords(L0, B0, R0, L, B, r1) ==
    <<Mul(Mul(r1, Cos(B)), Cos(L)) - Mul(Mul(R0, Cos(B0)), Cos(L0)),
      Mul(Mul(r1, Cos(B)), Sin(L)) - Mul(Mul(R0, Cos(B0)), Sin(L0)),
      Mul(r1, Sin(B)) - Mul(R0, Sin(B0))>>

\* planet::dist_frm_ecl_rect_coords
dist_frm_ecl_rect_coords(X, Y, Z) == Sqrt(Mul(X, X) + Mul(Y, Y) + Mul(Z, Z))

\* planet::light_time: the days light takes over dist AU, 0.0057755183 per AU.
planet_light_time(dist) == Mul(578, dist)

\* nutation::nutation_in_eq_coords: the nutation in right ascension and in
\* declination of the point (ra, decl).
nutation_in_eq_coords(ra, decl, dpsi, deps, oblq) ==
    <<Mul(Cos(oblq) + Mul(Mul(Sin(oblq), Sin(ra)), Tan(decl)), dpsi)
        - Mul(Mul(Cos(ra), Tan(decl)), deps),
      Mul(Mul(Sin(oblq), Cos(ra)), dpsi) + Mul(Sin(ra), deps)>>

\* ------------------------------------------------------------------------
\* The calls of ephemeris
\* ------------------------------------------------------------------------

\* How many calls a behaviour makes.
MaxCalls == 2

\* The Julian days a call is made with: JD 2448972.50068 and MaxJD earlier
\* days, 5499.86541 days apart; the last ones lie before the epoch of d.
MaxJD == 5

JDs == {DaySub(<<2448972 - k * 5499, 50068>>, k * 86541) : k \in 0..MaxJD}

\* Mean obliquity of the ecliptic, 23.4402069 degrees.
Obliquities == {ToRadians(2344021)}

\* Nutation in longitude and in obliquity: (16.86", -1.79") and (-12.4", 8.2").
Nutations == {<<8, -1>>, <<-6, 4>>}

VARIABLES
    pc,             \* where the call stands; "idle" between calls
    JD, mn_oblq_eclip, nut_in_long, nut_in_oblq,    \* the arguments
    d, T1, asc0, dec0, W1, W2,
    l0, b0, R,
    l, b, r, x, y, z, jup_earth_dist, light_time, i,
    asc_s, dec_s, D_s,
    u, v, asc, dec, zeta, D_e,
    w1, w2, C,
    tru_oblq_eclip, asc1, dec1, asc01, dec01, P,
    evals,          \* the heliocen_pos evaluations of this call, in order
    steps,          \* the loop passes and corrections of this call, in order
    history         \* the finished calls: arguments and returned tuple

argVars == <<JD, mn_oblq_eclip, nut_in_long, nut_in_oblq>>
poleVars == <<d, T1, asc0, dec0, W1, W2>>
earthVars == <<l0, b0, R>>
jupVars == <<l, b, r>>
rectVars == <<x, y, z, jup_earth_dist>>
loopVars == <<light_time, i>>
sunVars == <<asc_s, dec_s, D_s>>
geoVars == <<u, v, zeta, D_e>>
eqVars == <<asc, dec>>
lonVars == <<w1, w2, C>>
nutVars == <<tru_oblq_eclip, asc1, dec1, asc01, dec01>>
vars == <<pc, argVars, poleVars, earthVars, jupVars, rectVars, loopVars, sunVars,
          geoVars, eqVars, lonVars, nutVars, P, evals, steps, history>>

n_plus_one == 2 + 1

\* Line 69: let n: u8 = 2
n == 2

Init ==
    /\ pc = "idle"
    /\ JD = <<0, 0>> /\ mn_oblq_eclip = 0 /\ nut_in_long = 0 /\ nut_in_oblq = 0
    /\ d = 0 /\ T1 = 0 /\ asc0 = 0 /\ dec0 = 0 /\ W1 = 0 /\ W2 = 0
    /\ l0 = 0 /\ b0 = 0 /\ R = 0
    /\ l = 0 /\ b = 0 /\ r = 0 /\ x = 0 /\ y = 0 /\ z = 0
    /\ jup_earth_dist = 0 /\ light_time = 0 /\ i = 0
    /\ asc_s = 0 /\ dec_s = 0 /\ D_s = 0
    /\ u = 0 /\ v = 0 /\ asc = 0 /\ dec = 0 /\ zeta = 0 /\ D_e = 0
    /\ w1 = 0 /\ w2 = 0 /\ C = 0
    /\ tru_oblq_eclip = 0 /\ asc1 = 0 /\ dec1 = 0 /\ asc01 = 0 /\ dec01 = 0 /\ P = 0
    /\ evals = <<>> /\ steps = <<>> /\ history = <<>>

\* Lines 49-59: the call binds its arguments; d, T1, the pole (asc0, dec0)
\* and the rotation angles W1, W2 follow from JD.  The other locals are not
\* bound yet: what the variables hold is left over and is read by no step
\* before the step that binds them.
Enter ==
    /\ pc = "idle"
    /\ Len(history) < MaxCalls
    /\ \E jd \in JDs, oblq \in Obliquities, nut \in Nutations :
         LET days == DaysSince(jd, <<2433282, 50000>>)
             cent == Sgn(days) * (Abs(days) \div 36525)
         IN  /\ JD' = jd
             /\ mn_oblq_eclip' = oblq
             /\ nut_in_long' = nut[1]
             /\ nut_in_oblq' = nut[2]
             /\ d' = days
             /\ T1' = cent
             /\ asc0' = ToRadians(26800000 + Mul(10610, cent))
             /\ dec0' = ToRadians(6450000 - Mul(1640, cent))
             /\ W1' = ToRadians(LimitTo360(Linear(1771000, 877, 90004, days)))
             /\ W2' = ToRadians(LimitTo360(Linear(1683800, 870, 27004, days)))
    /\ evals' = <<>> /\ steps' = <<>>
    /\ pc' = "earth"
    /\ UNCHANGED <<earthVars, jupVars, rectVars, loopVars, sunVars, geoVars, eqVars,
                   lonVars, nutVars, P, history>>

\* Line 61: the heliocentric position of the Earth on JD.
EarthPosition ==
    /\ pc = "earth"
    /\ LET pos == heliocen_pos("Earth", JD)
       IN  /\ l0' = pos[1]
           /\ b0' = pos[2]
           /\ R' = pos[3]
    /\ evals' = Append(evals, <<"Earth", JD>>)
    /\ pc' = "locals"
    /\ UNCHANGED <<argVars, poleVars, jupVars, rectVars, loopVars, sunVars, geoVars,
                   eqVars, lonVars, nutVars, P, steps, history>>

\* Locals with the loop counter carried over from the call before: a call
\* that follows another makes the last pass only.
LocalsKeepCounter ==
    /\ pc = "locals"
    /\ l' = 0 /\ b' = 0 /\ r' = 0
    /\ x' = 0 /\ y' = 0 /\ z' = 0
    /\ jup_earth_dist' = 0
    /\ light_time' = 0
    /\ i' = IF i > n THEN n ELSE 1
    /\ pc' = "loop"
    /\ UNCHANGED <<argVars, poleVars, earthVars, sunVars, geoVars, eqVars, lonVars,
                   nutVars, P, evals, steps, history>>

\* Lines 63-69: the locals of the light-time loop.
Locals ==
    /\ pc = "locals"
    /\ l' = 0 /\ b' = 0 /\ r' = 0
    /\ x' = 0 /\ y' = 0 /\ z' = 0
    /\ jup_earth_dist' = 0
    /\ light_time' = 0
    /\ i' = 1
    /\ pc' = "loop"
    /\ UNCHANGED <<argVars, poleVars, earthVars, sunVars, geoVars, eqVars, lonVars,
                   nutVars, P, evals, steps, history>>

ObservationEpoch == JD

\* Line 71: JD - light_time, the day Jupiter's position is taken for.
LightEpoch == DaySub(JD, light_time)

\* Pass with the correction of line 83 applied to l inside the pass.
PassWithDefect ==
    /\ pc = "loop"
    /\ i <= n
    /\ LET pos  == heliocen_pos("Jupiter", LightEpoch)
           rect == geocen_ecl_rect_coords(l0, b0, R, pos[1], pos[2], pos[3])
       IN  /\ b' = pos[2] /\ r' = pos[3]
           /\ x' = rect[1] /\ y' = rect[2] /\ z' = rect[3]
           /\ jup_earth_dist' = dist_frm_ecl_rect_coords(x', y', z')
           /\ l' = pos[1] - Div(Mul(ToRadians(1299), jup_earth_dist'), Mul(r', r'))
    /\ light_time' = planet_light_time(jup_earth_dist')
    /\ evals' = Append(evals, <<"Jupiter", LightEpoch>>)
    /\ i' = (i + 1) % 256
    /\ steps' = Append(steps, <<"pass", "planet">>)
    /\ pc' = "loop"
    /\ UNCHANGED <<argVars, poleVars, earthVars, sunVars, geoVars, eqVars, lonVars,
                   nutVars, P, history>>

\* Lines 70-81: one pass of the loop, while i <= n.
Pass ==
    /\ pc = "loop"
    /\ i <= n
    /\ LET pos == heliocen_pos("Jupiter", LightEpoch)
       IN  l' = pos[1] /\ b' = pos[2] /\ r' = pos[3]
    /\ LET rect == geocen_ecl_rect_coords(l0, b0, R, l', b', r')
       IN  x' = rect[1] /\ y' = rect[2] /\ z' = rect[3]
    /\ jup_earth_dist' = dist_frm_ecl_rect_coords(x', y', z')
    /\ light_time' = planet_light_time(jup_earth_dist')
    /\ evals' = Append(evals, <<"Jupiter", LightEpoch>>)
    /\ i' = (i + 1) % 256
    /\ steps' = Append(steps, <<"pass", "planet">>)
    /\ pc' = "loop"
    /\ UNCHANGED <<argVars, poleVars, earthVars, sunVars, geoVars, eqVars, lonVars,
                   nutVars, P, history>>

\* Lines 83-85, once i > n: the longitude l gives up 0.01299 degrees times
\* the distance over r squared, and the rectangular coordinates and the
\* distance are taken again.
Defect ==
    /\ pc = "loop"
    /\ ~(i <= n)
    /\ l' = l - Div(Mul(ToRadians(1299), jup_earth_dist), Mul(r, r))
    /\ LET rect == geocen_ecl_rect_coords(l0, b0, R, l', b, r)
       IN  x' = rect[1] /\ y' = rect[2] /\ z' = rect[3]
    /\ jup_earth_dist' = dist_frm_ecl_rect_coords(x', y', z')
    /\ steps' = Append(steps, <<"defect", "planet">>)
    /\ pc' = "sun"
    /\ UNCHANGED <<argVars, poleVars, earthVars, b, r, loopVars, sunVars, geoVars,
                   eqVars, lonVars, nutVars, P, evals, history>>

\* The right ascension of the Sun seen from the Earth: longitude l0 + pi,
\* latitude -b0.
SunRightAscensionOfEarth ==
    Atan2(Mul(Cos(mn_oblq_eclip), Sin(l0 + Pi)) - Mul(Sin(mn_oblq_eclip), Tan(- b0)),
          Cos(l0 + Pi))

\* Lines 87-90: the equatorial coordinates (asc_s, dec_s) behind D_s, the
\* declination of the Sun seen from the planet.
SunRightAscension ==
    Atan2(Mul(Cos(mn_oblq_eclip), Sin(l)) - Mul(Sin(mn_oblq_eclip), Tan(b)), Cos(l))

SunDeclination ==
    Asin(Mul(Cos(mn_oblq_eclip), Sin(b)) + Mul(Mul(Sin(mn_oblq_eclip), Cos(b)), Sin(l)))

Sun ==
    /\ pc = "sun"
    /\ asc_s' = SunRightAscension
    /\ dec_s' = SunDeclination
    /\ D_s' = Asin(- Mul(Sin(dec0), Sin(dec_s'))
                   - Mul(Mul(Cos(dec0), Cos(dec_s')), Cos(asc0 - asc_s')))
    /\ pc' = "geo"
    /\ UNCHANGED <<argVars, poleVars, earthVars, jupVars, rectVars, loopVars, geoVars,
                   eqVars, lonVars, nutVars, P, evals, steps, history>>

\* Lines 92-99: the geocentric equatorial coordinates (asc, dec) of the
\* planet, the angle zeta and D_e, the declination of the Earth seen from
\* the planet.
Geo ==
    /\ pc = "geo"
    /\ u' = Mul(y, Cos(mn_oblq_eclip)) - Mul(z, Sin(mn_oblq_eclip))
    /\ v' = Mul(y, Sin(mn_oblq_eclip)) + Mul(z, Cos(mn_oblq_eclip))
    /\ asc' = Atan2(u', x)
    /\ dec' = Atan2(v', Sqrt(Mul(x, x) + Mul(u', u')))
    /\ zeta' = Atan2(Mul(Mul(Sin(dec0), Cos(dec')), Cos(asc0 - asc'))
                       - Mul(Sin(dec'), Cos(dec0)),
                     Mul(Cos(dec'), Sin(asc0 - asc')))
    /\ D_e' = Asin(- Mul(Sin(dec0), Sin(dec'))
                   - Mul(Mul(Cos(dec0), Cos(dec')), Cos(asc0 - asc')))
    /\ pc' = "longitudes"
    /\ UNCHANGED <<argVars, poleVars, earthVars, jupVars, rectVars, loopVars, sunVars,
                   lonVars, nutVars, P, evals, steps, history>>

LongitudeUnlimited(W, k) ==
    ToDegrees(W) - ToDegrees(zeta) - Mul(k, jup_earth_dist)

\* Lines 101-102: a central-meridian longitude, in degrees, from the rotation
\* angle W and the daily rate k of its system.
Longitude(W, k) ==
    LimitTo360(<<0, ToDegrees(W) - ToDegrees(zeta) - Mul(k, jup_earth_dist)>>)

Longitudes ==
    /\ pc = "longitudes"
    /\ w1' = Longitude(W1, 507033)
    /\ w2' = Longitude(W2, 502626)
    /\ pc' = "parallax"
    /\ UNCHANGED <<argVars, poleVars, earthVars, jupVars, rectVars, loopVars, sunVars,
                   geoVars, eqVars, C, nutVars, P, evals, steps, history>>

\* Lines 104-105: the correction C, in degrees.
Correction ==
    Div(Mul(5729580, 2 * Mul(r, jup_earth_dist) + Mul(R, R) - Mul(r, r)
                       - Mul(jup_earth_dist, jup_earth_dist)),
        4 * Mul(r, jup_earth_dist))

SignedCorrectionOpposite == IF Sin(l - l0) > 0 THEN Correction * (-1) ELSE Correction

\* Lines 106-108: C with the sign the test on sin(l - l0) gives it.
SignedCorrection == IF Sin(l - l0) < 0 THEN Correction * (-1) ELSE Correction

\* Parallax with the sums brought into [0, 360) again.
ParallaxLimited ==
    /\ pc = "parallax"
    /\ C' = SignedCorrection
    /\ w1' = ToRadians(LimitTo360(<<0, w1 + C'>>))
    /\ w2' = ToRadians(LimitTo360(<<0, w2 + C'>>))
    /\ pc' = "aberration"
    /\ UNCHANGED <<argVars, poleVars, earthVars, jupVars, rectVars, loopVars, sunVars,
                   geoVars, eqVars, nutVars, P, evals, steps, history>>

\* Lines 104-110: C goes into w1 and w2, which leave in radians.
Parallax ==
    /\ pc = "parallax"
    /\ C' = SignedCorrection
    /\ w1' = ToRadians(w1 + C')
    /\ w2' = ToRadians(w2 + C')
    /\ pc' = "aberration"
    /\ UNCHANGED <<argVars, poleVars, earthVars, jupVars, rectVars, loopVars, sunVars,
                   geoVars, eqVars, nutVars, P, evals, steps, history>>

\* Lines 112-118: the true obliquity, and the aberration of the planet's
\* (asc, dec); the declination is corrected with the corrected asc.
Aberration ==
    /\ pc = "aberration"
    /\ tru_oblq_eclip' = mn_oblq_eclip + nut_in_oblq
    /\ LET q == ToRadians(569)
       IN  /\ asc' = asc + Div(Mul(q, Mul(Mul(Cos(asc), Cos(l0)), Cos(tru_oblq_eclip'))
                                       + Mul(Sin(asc), Sin(l0))),
                               Cos(dec))
           /\ dec' = dec + Mul(q, Mul(Mul(Cos(l0), Cos(tru_oblq_eclip')),
                                      Mul(Tan(tru_oblq_eclip'), Cos(dec))
                                        - Mul(Sin(asc'), Cos(asc')))
                                  + Mul(Mul(Cos(asc'), Sin(dec)), Sin(l0)))
    /\ steps' = Append(steps, <<"aberration", "planet">>)
    /\ pc' = "nutation"
    /\ UNCHANGED <<argVars, poleVars, earthVars, jupVars, rectVars, loopVars, sunVars,
                   geoVars, lonVars, asc1, dec1, asc01, dec01, P, evals, history>>

\* Lines 120-123: the nutation of the planet's (asc, dec).
NutationPlanet ==
    /\ pc = "nutation"
    /\ LET nut == nutation_in_eq_coords(asc, dec, nut_in_long, nut_in_oblq,
                                        tru_oblq_eclip)
       IN  /\ asc1' = asc + nut[1]
           /\ dec1' = dec + nut[2]
    /\ steps' = Append(steps, <<"nutation", "planet">>)
    /\ pc' = "nutation0"
    /\ UNCHANGED <<argVars, poleVars, earthVars, jupVars, rectVars, loopVars, sunVars,
                   geoVars, eqVars, lonVars, tru_oblq_eclip, asc01, dec01, P, evals,
                   history>>

\* NutationPole with the aberration of lines 115-118 given to the pole first.
NutationPoleAberrated ==
    /\ pc = "nutation0"
    /\ LET q  == ToRadians(569)
           a0 == asc0 + Div(Mul(q, Mul(Mul(Cos(asc0), Cos(l0)), Cos(tru_oblq_eclip))
                                    + Mul(Sin(asc0), Sin(l0))),
                            Cos(dec0))
           d0 == dec0 + Mul(q, Mul(Mul(Cos(l0), Cos(tru_oblq_eclip)),
                                   Mul(Tan(tru_oblq_eclip), Cos(dec0))
                                     - Mul(Sin(a0), Cos(a0)))
                               + Mul(Mul(Cos(a0), Sin(dec0)), Sin(l0)))
           nut == nutation_in_eq_coords(a0, d0, nut_in_long, nut_in_oblq,
                                        tru_oblq_eclip)
       IN  /\ asc01' = a0 + nut[1]
           /\ dec01' = d0 + nut[2]
    /\ steps' = steps \o << <<"aberration", "pole">>, <<"nutation", "pole">> >>
    /\ pc' = "angle"
    /\ UNCHANGED <<argVars, poleVars, earthVars, jupVars, rectVars, loopVars, sunVars,
                   geoVars, eqVars, lonVars, tru_oblq_eclip, asc1, dec1, P, evals,
                   history>>

\* Lines 125-128: the nutation of the pole's (asc0, dec0).
NutationPole ==
    /\ pc = "nutation0"
    /\ LET nut == nutation_in_eq_coords(asc0, dec0, nut_in_long, nut_in_oblq,
                                        tru_oblq_eclip)
       IN  /\ asc01' = asc0 + nut[1]
           /\ dec01' = dec0 + nut[2]
    /\ steps' = Append(steps, <<"nutation", "pole">>)
    /\ pc' = "angle"
    /\ UNCHANGED <<argVars, poleVars, earthVars, jupVars, rectVars, loopVars, sunVars,
                   geoVars, eqVars, lonVars, tru_oblq_eclip, asc1, dec1, P, evals,
                   history>>

\* Lines 130-131: the position angle P of the axis.
PositionAngle ==
    /\ pc = "angle"
    /\ P' = Atan2(Mul(Cos(dec01), Sin(asc01 - asc1)),
                  Mul(Sin(dec01), Cos(dec1))
                    - Mul(Mul(Cos(dec01), Sin(dec1)), Cos(asc01 - asc1)))
    /\ steps' = Append(steps, <<"angle", "P">>)
    /\ pc' = "return"
    /\ UNCHANGED <<argVars, poleVars, earthVars, jupVars, rectVars, loopVars, sunVars,
                   geoVars, eqVars, lonVars, nutVars, evals, history>>

\* Line 133: the call returns (D_e, D_s, w1, w2, P).
Return ==
    /\ pc = "return"
    /\ history' = Append(history, [args |-> <<JD, mn_oblq_eclip, nut_in_long, nut_in_oblq>>,
                                   ret  |-> <<D_e, D_s, w1, w2, P>>])
    /\ pc' = "idle"
    /\ UNCHANGED <<argVars, poleVars, earthVars, jupVars, rectVars, loopVars, sunVars,
                   geoVars, eqVars, lonVars, nutVars, P, evals, steps>>

Next ==
    \/ Enter
    \/ EarthPosition
    \/ Locals
    \/ Pass
    \/ Defect
    \/ Sun
    \/ Geo
    \/ Longitudes
    \/ Parallax
    \/ Aberration
    \/ NutationPlanet
    \/ NutationPole
    \/ PositionAngle
    \/ Return

Spec == Init /\ [][Next]_vars

\* ------------------------------------------------------------------------
\* Properties
\* ------------------------------------------------------------------------

\* The steps of one call after the loop has been left, and after w1 and w2
\* have received C.
AfterLoop == {"sun", "geo", "longitudes", "parallax", "aberration", "nutation",
              "nutation0", "angle", "return"}

AfterParallax == {"aberration", "nutation", "nutation0", "angle", "return"}

\* The steps of the kinds in `kinds` logged for `who`, in order.
StepsOf(who, kinds) ==
    LET sel == SelectSeq(steps, LAMBDA e : e[2] = who /\ e[1] \in kinds)
    IN  [k \in 1..Len(sel) |-> sel[k][1]]

\* The bodies heliocen_pos was evaluated for, in order.
Bodies == [k \in 1..Len(evals) |-> evals[k][1]]

\* C2: once a call has left the loop, the loop body has run exactly 2 times
\* and heliocen_pos has been evaluated exactly 3 times, once for the Earth
\* and then twice for Jupiter, whatever the distance; no later step adds an
\* evaluation.
TwoPassesThreeEvaluations ==
    /\ Len(StepsOf("planet", {"pass"})) <= 2
    /\ pc \in AfterLoop =>
         /\ StepsOf("planet", {"pass"}) = <<"pass", "pass">>
         /\ Bodies = <<"Earth", "Jupiter", "Jupiter">>
         /\ i = 3

\* A second call, on another day, at its return.
TwoPassesThreeEvaluationsWitness ==
    /\ pc = "return"
    /\ Len(evals) = 3
    /\ Len(history) = 1
    /\ JD # history[1].args[1]

\* C3, as claimed: when P is computed, the planet's pair and the pole's pair
\* have each received the aberration and then the nutation.
BothPairsAberratedAndNutated ==
    pc = "return" =>
      /\ StepsOf("planet", {"aberration", "nutation"}) = <<"aberration", "nutation">>
      /\ StepsOf("pole", {"aberration", "nutation"}) = <<"aberration", "nutation">>

\* C3, amended: when P is computed, the planet's (asc, dec) has received the
\* aberration and then the nutation, and the pole's (asc0, dec0) the
\* nutation alone: (asc01, dec01) is (asc0, dec0) plus its nutation.  P is
\* computed after these corrections, from (asc1, dec1) and (asc01, dec01).
PlanetAberratedBothNutated ==
    /\ pc \in {"aberration", "nutation", "nutation0", "angle"} => steps[Len(steps)][1] # "angle"
    /\ pc = "return" =>
         LET nut0 == nutation_in_eq_coords(asc0, dec0, nut_in_long, nut_in_oblq,
                                           mn_oblq_eclip + nut_in_oblq)
         IN  /\ StepsOf("planet", {"aberration", "nutation"}) = <<"aberration", "nutation">>
             /\ StepsOf("pole", {"aberration", "nutation"}) = <<"nutation">>
             /\ steps[Len(steps)] = <<"angle", "P">>
             /\ asc01 = asc0 + nut0[1]
             /\ dec01 = dec0 + nut0[2]
             /\ P = Atan2(Mul(Cos(dec01), Sin(asc01 - asc1)),
                          Mul(Sin(dec01), Cos(dec1))
                            - Mul(Mul(Cos(dec01), Sin(dec1)), Cos(asc01 - asc1)))

\* The aberration has moved the planet's right ascension off atan2(u, x) and
\* the nutation has moved it again and has moved the pole.
PlanetAberratedBothNutatedWitness ==
    /\ pc = "return"
    /\ asc # Atan2(u, x)
    /\ asc1 # asc
    /\ <<asc01, dec01>> # <<asc0, dec0>>

\* C4: the value that goes into w1 and w2 is the computed C negated when
\* sin(l - l0) < 0 and the computed C itself when sin(l - l0) >= 0, and it is
\* the same value for w1 and for w2.
SignFollowsSine ==
    [][pc = "parallax" =>
         /\ Sin(l - l0) < 0 => C' = - Correction
         /\ Sin(l - l0) >= 0 => C' = Correction
         /\ w1' = ToRadians(w1 + C')
         /\ w2' = ToRadians(w2 + C')]_vars

SignFollowsSineWitness ==
    /\ pc = "aberration"
    /\ Sin(l - l0) < 0
    /\ Correction > 0
    /\ C = - Correction

DefectOnceAfterLoop ==
    /\ pc \in {"earth", "locals", "loop"} => StepsOf("planet", {"defect"}) = <<>>
    /\ pc \in AfterLoop =>
         LET pos  == heliocen_pos("Jupiter", evals[Len(evals)][2])
             rect == geocen_ecl_rect_coords(l0, b0, R, pos[1], pos[2], pos[3])
             dist == dist_frm_ecl_rect_coords(rect[1], rect[2], rect[3])
         IN  /\ StepsOf("planet", {"pass", "defect"}) = <<"pass", "pass", "defect">>
             /\ Len(evals) = 3
             /\ l = pos[1] - Div(Mul(ToRadians(1299), dist), Mul(pos[3], pos[3]))

DefectOnceAfterLoopWitness ==
    /\ pc = "sun"
    /\ l # heliocen_pos("Jupiter", evals[3][2])[1]

\* C7: the Earth's position is evaluated first, once, on JD, and (l0, b0, R)
\* stays that position; the first pass evaluates Jupiter on JD - 0 and the
\* second on JD less the light-time of the distance the first pass found.
LightTimeEpochs ==
    /\ Len(evals) >= 1 =>
         /\ evals[1] = <<"Earth", JD>>
         /\ <<l0, b0, R>> = heliocen_pos("Earth", JD)
         /\ \A k \in 2..Len(evals) : evals[k][1] # "Earth"
    /\ Len(evals) >= 2 => evals[2] = <<"Jupiter", DaySub(JD, 0)>>
    /\ Len(evals) >= 3 =>
         LET pos  == heliocen_pos("Jupiter", JD)
             rect == geocen_ecl_rect_coords(l0, b0, R, pos[1], pos[2], pos[3])
             dist == dist_frm_ecl_rect_coords(rect[1], rect[2], rect[3])
         IN  evals[3] = <<"Jupiter", DaySub(JD, planet_light_time(dist))>>

LightTimeEpochsWitness ==
    /\ pc = "return"
    /\ Len(evals) = 3
    /\ evals[3][2] # evals[2][2]

\* The equatorial coordinates of the point of ecliptic longitude lon and
\* latitude lat, for the obliquity oblq.
EquatorialOf(lon, lat, oblq) ==
    <<Atan2(Mul(Cos(oblq), Sin(lon)) - Mul(Sin(oblq), Tan(lat)), Cos(lon)),
      Asin(Mul(Cos(oblq), Sin(lat)) + Mul(Mul(Sin(oblq), Cos(lat)), Sin(lon)))>>

\* C8, as claimed: (asc_s, dec_s) are the equatorial coordinates of the point
\* opposite the Earth's heliocentric (l0, b0): longitude l0 + pi, latitude -b0.
SunFromEarthReversed ==
    pc \in {"geo", "return"} =>
      <<asc_s, dec_s>> = EquatorialOf(l0 + Pi, - b0, mn_oblq_eclip)

\* C8, amended: (asc_s, dec_s) are the equatorial coordinates of Jupiter's own
\* heliocentric longitude l, as corrected after the loop, and latitude b,
\* for the mean obliquity; D_s follows from them and the pole.
SunFromPlanet ==
    pc \in {"geo", "return"} =>
      /\ <<asc_s, dec_s>> = EquatorialOf(l, b, mn_oblq_eclip)
      /\ D_s = Asin(- Mul(Sin(dec0), Sin(dec_s))
                    - Mul(Mul(Cos(dec0), Cos(dec_s)), Cos(asc0 - asc_s)))

SunFromPlanetWitness ==
    /\ pc = "geo"
    /\ asc_s # 0
    /\ D_s # 0
    /\ <<l, b>> # <<(l0 + Pi) % TwoPi, - b0>>

\* C9: two calls with the same four arguments return the same five values.
SameArgumentsSameResult ==
    \A p, q \in 1..Len(history) :
        history[p].args = history[q].args => history[p].ret = history[q].ret

\* Two calls with the same arguments, after a call with other arguments.
SameArgumentsSameResultWitness ==
    /\ Len(history) >= 2
    /\ history[1].args = history[2].args
    /\ history[1].ret[3] # 0

\* C10: w1 and w2 are within [0, 360) degrees when C is added, the sums are
\* turned to radians as they are, and nothing changes them before they are
\* returned: each returned longitude is the radians of (normalized
\* longitude + C), between the radians of C and of 360 + C.
CorrectionAfterNormalization ==
    [][/\ pc = "parallax" =>
            /\ 0 <= w1 /\ w1 < 360 * Scale
            /\ 0 <= w2 /\ w2 < 360 * Scale
            /\ w1' = ToRadians(w1 + C')
            /\ w2' = ToRadians(w2 + C')
            /\ ToRadians(C') <= w1' /\ w1' <= ToRadians(360 * Scale + C')
            /\ ToRadians(C') <= w2' /\ w2' <= ToRadians(360 * Scale + C')
       /\ pc \in AfterParallax =>
            /\ w1' = w1 /\ w2' = w2 /\ C' = C
            /\ pc = "return" =>
                 /\ history'[Len(history')].ret[3] = w1
                 /\ history'[Len(history')].ret[4] = w2]_vars

\* A returned System I longitude of 360 degrees or more.
CorrectionAfterNormalizationWitness ==
    /\ pc = "idle"
    /\ Len(history) >= 1
    /\ history[Len(history)].ret[3] >= ToRadians(360 * Scale)

====
